---------------------------- MODULE Spec2Model ----------------------------
(***************************************************************************)
(* Model of wordpress_to_github.py (class WordPressToGitHub).              *)
(*                                                                         *)
(* Python strings are TLA+ strings; TLC evaluates Len, \o, SubSeq, Head    *)
(* and Tail on them, so every string function below works character by    *)
(* character as the Python code and its regular expressions do.  The       *)
(* character classes are the ASCII part of Python's \d, \w and \s.         *)
(*                                                                         *)
(* Spec is one execution of run(): discovery, the loop over the posts, the *)
(* index and the summary.  SpecClassify, SpecMedia and SpecConvert are one *)
(* call of _is_blog_post, download_media and convert_to_markdown on every  *)
(* argument of a bounded family.                                           *)
(***************************************************************************)
EXTENDS Integers, Sequences, FiniteSets, TLC

(***************************************************************************)
(* Strings                                                                 *)
(***************************************************************************)
None == "<None>"

\* the element of a one-element set: The({ f(x) : x \in {e} }) is f(e) with e
\* evaluated once
The(S) == CHOOSE x \in S : TRUE

Char(s, i) == SubSeq(s, i, i)

UpperChars == "ABCDEFGHIJKLMNOPQRSTUVWXYZ"
LowerChars == "abcdefghijklmnopqrstuvwxyz"
DigitChars == "0123456789"

CharsOf(s) == { Char(s, i) : i \in 1..Len(s) }

Digits == { "0", "1", "2", "3", "4", "5", "6", "7", "8", "9" }
LowerAlphas == { "a", "b", "c", "d", "e", "f", "g", "h", "i", "j", "k", "l", "m", "n", "o", "p", "q", "r", "s", "t", "u", "v", "w", "x", "y", "z" }
UpperAlphas == { "A", "B", "C", "D", "E", "F", "G", "H", "I", "J", "K", "L", "M", "N", "O", "P", "Q", "R", "S", "T", "U", "V", "W", "X", "Y", "Z" }

IsDigit(c) == c \in Digits
IsLowerAlpha(c) == c \in LowerAlphas
IsUpperAlpha(c) == c \in UpperAlphas
IsAlpha(c) == IsLowerAlpha(c) \/ IsUpperAlpha(c)
\* [a-z0-9-]
IsSlugChar(c) == IsLowerAlpha(c) \/ IsDigit(c) \/ c = "-"
\* \w
IsWordChar(c) == IsAlpha(c) \/ IsDigit(c) \/ c = "_"
\* \s
IsSpace(c) == c \in {" ", "\t", "\n", "\r"}

\* t in s
Contains(s, t) ==
    \E i \in 1..(Len(s) - Len(t) + 1) : SubSeq(s, i, i + Len(t) - 1) = t

\* s.startswith(t)
StartsWith(s, t) == Len(t) <= Len(s) /\ SubSeq(s, 1, Len(t)) = t

\* s.find(t) as a 1-based index, 0 when t does not occur in s
Find(s, t) ==
    IF Contains(s, t)
    THEN CHOOSE i \in 1..(Len(s) - Len(t) + 1) :
            /\ SubSeq(s, i, i + Len(t) - 1) = t
            /\ \A j \in 1..(i - 1) : SubSeq(s, j, j + Len(t) - 1) # t
    ELSE 0

\* the text of s from position i to its end
From(s, i) == SubSeq(s, i, Len(s))

LowerOf == [ c \in UpperAlphas |->
                Char(LowerChars, CHOOSE i \in 1..Len(UpperChars) : Char(UpperChars, i) = c) ]

LowerChar(c) == IF IsUpperAlpha(c) THEN LowerOf[c] ELSE c

RECURSIVE Concat(_, _, _)
\* the texts parts[lo], ... parts[hi] put together (the range is halved, so that the
\* evaluation stays shallow)
Concat(parts, lo, hi) ==
    IF lo > hi THEN ""
    ELSE IF lo = hi THEN parts[lo]
    ELSE Concat(parts, lo, (lo + hi) \div 2) \o Concat(parts, (lo + hi) \div 2 + 1, hi)

\* ''.join(parts): a substitution made at every position of a string is the join of
\* what each position becomes
Join(parts) == Concat(parts, 1, Len(parts))

\* s.lower()
Lower(s) == Join([ k \in 1..Len(s) |->
            LowerChar(Char(s, k)) ])

RECURSIVE RStrip(_, _)
\* s.rstrip(c)
RStrip(s, c) ==
    IF s # "" /\ Char(s, Len(s)) = c THEN RStrip(SubSeq(s, 1, Len(s) - 1), c) ELSE s

RECURSIVE LStrip(_, _)
\* s.lstrip(c)
LStrip(s, c) == IF s # "" /\ Head(s) = c THEN LStrip(Tail(s), c) ELSE s

\* s.strip(c)
Strip(s, c) == LStrip(RStrip(s, c), c)

\* the first position >= i of s that holds a character of the set cs, Len(s)+1 if none
FirstOf(s, i, cs) ==
    IF \E k \in i..Len(s) : Char(s, k) \in cs
    THEN CHOOSE k \in i..Len(s) :
            /\ Char(s, k) \in cs
            /\ \A j \in i..(k - 1) : Char(s, j) \notin cs
    ELSE Len(s) + 1

\* n digits of s start at position i
DigitsAt(s, i, n) == i + n - 1 <= Len(s) /\ \A k \in i..(i + n - 1) : IsDigit(Char(s, k))

\* the text t starts at position i of s
LitAt(s, i, t) == i >= 1 /\ i + Len(t) - 1 <= Len(s) /\ SubSeq(s, i, i + Len(t) - 1) = t

\* the regular expression anchor $ at position e (the position after the match):
\* the end of the string, or just before a newline that ends the string
AtEnd(s, e) == e = Len(s) + 1 \/ (e = Len(s) /\ Char(s, e) = "\n")

(***************************************************************************)
(* urllib.parse.urlparse, for the URLs with a hierarchical part            *)
(***************************************************************************)
\* the position of the ":" that ends the scheme, 0 if the URL has no scheme
SchemeColon(url) ==
    LET k == FirstOf(url, 1, {":"})
    IN  IF /\ k <= Len(url) /\ k > 1
           /\ IsAlpha(Head(url))
           /\ \A j \in 1..(k - 1) :
                 IsAlpha(Char(url, j)) \/ IsDigit(Char(url, j)) \/ Char(url, j) \in {"+", "-", "."}
        THEN k ELSE 0

\* urlsplit drops tab, carriage return and newline from the URL before it parses it
RemoveUnsafe(url) ==
    Join([ k \in 1..Len(url) |->
            IF Char(url, k) \in {"\t", "\r", "\n"} THEN "" ELSE Char(url, k) ])

\* urlparse(url).scheme
UrlScheme(raw) ==
    LET url == RemoveUnsafe(raw) IN Lower(SubSeq(url, 1, SchemeColon(url) - 1))

\* the text after "scheme:"
AfterScheme(url) == From(url, SchemeColon(url) + 1)

\* urlparse(url).netloc
UrlNetloc(raw) ==
    LET url == RemoveUnsafe(raw)
        r == AfterScheme(url)
    IN  IF StartsWith(r, "//") THEN SubSeq(r, 3, FirstOf(r, 3, {"/", "?", "#"}) - 1) ELSE ""

\* urlparse(url).path
UrlPath(raw) ==
    LET url == RemoveUnsafe(raw)
        r == AfterScheme(url)
        p == IF StartsWith(r, "//") THEN From(r, FirstOf(r, 3, {"/", "?", "#"})) ELSE r
    IN  SubSeq(p, 1, FirstOf(p, 1, {"?", "#"}) - 1)

\* the last position of s that holds the character c, 0 if none
LastOf(s, c) ==
    IF \E k \in 1..Len(s) : Char(s, k) = c
    THEN CHOOSE k \in 1..Len(s) : Char(s, k) = c /\ \A j \in (k + 1)..Len(s) : Char(s, j) # c
    ELSE 0

\* urllib.parse.urljoin(base, u) for a non-empty u without "." and ".." segments:
\* a URL with another scheme, or with a network location, stands as it is; a path
\* from the root replaces the base's path; any other path replaces the last
\* segment of the base's path
urljoin(base, u) ==
    LET origin == UrlScheme(base) \o "://" \o UrlNetloc(base)
        bpath == UrlPath(base)
    IN  IF SchemeColon(u) # 0 /\ UrlScheme(u) # UrlScheme(base) THEN u
        ELSE IF SchemeColon(u) # 0 THEN UrlScheme(u) \o ":" \o AfterScheme(u)
        ELSE IF StartsWith(u, "//") THEN UrlScheme(base) \o ":" \o u
        ELSE IF StartsWith(u, "/") THEN origin \o u
        ELSE origin \o "/" \o LStrip(SubSeq(bpath, 1, LastOf(bpath, "/")), "/") \o u

\* os.path.basename(p), and Path.name of a path without a closing slash
basename(p) == From(p, LastOf(p, "/") + 1)

\* pathlib: directory / name
PathJoin(dir, name) == dir \o "/" \o name

(***************************************************************************)
(* WordPressToGitHub.__init__                                              *)
(***************************************************************************)
\* the site URL given on the command line
SiteArg == "https://example.com/"

site_url == RStrip(SiteArg, "/")

output_dir == "blog_backup"
posts_dir == PathJoin(output_dir, "posts")
media_dir == PathJoin(output_dir, "media")
images_dir == PathJoin(media_dir, "images")
videos_dir == PathJoin(media_dir, "videos")

(***************************************************************************)
(* WordPressToGitHub._is_blog_post                                         *)
(***************************************************************************)
excluded ==
    << "/feed/", "/category/", "/tag/", "/author/",
       "/page/", "/wp-", "/login", "/admin",
       ".xml", ".jpg", ".png", ".gif", ".pdf",
       "/about", "/contact", "/privacy", "/terms",
       "/archives/", "/blog/", "/posts/" >>

\* for excluded_term in excluded: if excluded_term in url.lower()
HasExcludedTerm(url) ==
    LET lowered == Lower(url)
    IN  \E k \in 1..Len(excluded) : Contains(lowered, excluded[k])

\* if not url.startswith(self.site_url)
FromSameDomain(url) == StartsWith(url, site_url)

\* re.match(r'^/\d{4}(/\d{2})?(/\d{2})?/?$', path)
MatchesDateArchive(path) ==
    \E a \in {0, 1}, b \in {0, 1}, c \in {0, 1} :
        /\ LitAt(path, 1, "/") /\ DigitsAt(path, 2, 4)
        /\ (a = 1 => LitAt(path, 6, "/") /\ DigitsAt(path, 7, 2))
        /\ (b = 1 => LitAt(path, 6 + 3 * a, "/") /\ DigitsAt(path, 7 + 3 * a, 2))
        /\ (c = 1 => LitAt(path, 6 + 3 * a + 3 * b, "/"))
        /\ AtEnd(path, 6 + 3 * a + 3 * b + c)

\* re.match(r'^/\d{4}/\d{2}/\d{2}/?$', path)
MatchesFullDate(path) ==
    \E c \in {0, 1} :
        /\ LitAt(path, 1, "/") /\ DigitsAt(path, 2, 4)
        /\ LitAt(path, 6, "/") /\ DigitsAt(path, 7, 2)
        /\ LitAt(path, 9, "/") /\ DigitsAt(path, 10, 2)
        /\ (c = 1 => LitAt(path, 12, "/"))
        /\ AtEnd(path, 12 + c)

\* at least n characters of [a-z0-9-] start at position i
SlugRunAt(s, i, n) == i + n - 1 <= Len(s) /\ \A k \in i..(i + n - 1) : IsSlugChar(Char(s, k))

\* re.search(r'/\d{4}/\d{2}/\d{2}/[a-z0-9-]+', path)
SearchDayPattern(path) ==
    \E i \in 1..Len(path) :
        /\ LitAt(path, i, "/") /\ DigitsAt(path, i + 1, 4)
        /\ LitAt(path, i + 5, "/") /\ DigitsAt(path, i + 6, 2)
        /\ LitAt(path, i + 8, "/") /\ DigitsAt(path, i + 9, 2)
        /\ LitAt(path, i + 11, "/") /\ SlugRunAt(path, i + 12, 1)

\* re.search(r'/\d{4}/\d{2}/[a-z0-9-]+', path)
SearchMonthPattern(path) ==
    \E i \in 1..Len(path) :
        /\ LitAt(path, i, "/") /\ DigitsAt(path, i + 1, 4)
        /\ LitAt(path, i + 5, "/") /\ DigitsAt(path, i + 6, 2)
        /\ LitAt(path, i + 8, "/") /\ SlugRunAt(path, i + 9, 1)

\* the least length of a slug without a date in front of it
LongSlugLen == 10

\* re.search(r'/[a-z0-9-]{10,}', path)
SearchLongSlug(path) ==
    \E i \in 1..Len(path) : LitAt(path, i, "/") /\ SlugRunAt(path, i + 1, LongSlugLen)

\* a variant of MatchesPostPattern that knows the /YYYY/MM/DD/slug pattern only
MatchesPostPattern_DayOnly(path) == SearchDayPattern(path)

\* for pattern in patterns: if re.search(pattern, path)
MatchesPostPattern(path) ==
    SearchDayPattern(path) \/ SearchMonthPattern(path) \/ SearchLongSlug(path)

\* path = parsed.path.rstrip('/')
PostPath(url) == RStrip(UrlPath(url), "/")

\* a variant of _is_blog_post that tries the acceptance patterns before the date-only rules
_is_blog_post_PatternsFirst(url) ==
    IF HasExcludedTerm(url) THEN FALSE
    ELSE IF ~FromSameDomain(url) THEN FALSE
    ELSE LET path == PostPath(url)
         IN  IF MatchesPostPattern(path) THEN TRUE
             ELSE IF MatchesDateArchive(path) THEN FALSE
             ELSE IF MatchesFullDate(path) THEN FALSE
             ELSE FALSE

_is_blog_post(url) ==
    IF HasExcludedTerm(url) THEN FALSE
    ELSE IF ~FromSameDomain(url) THEN FALSE
    ELSE LET path == PostPath(url)
         IN  IF MatchesDateArchive(path) THEN FALSE
             ELSE IF MatchesFullDate(path) THEN FALSE
             ELSE MatchesPostPattern(path)

(***************************************************************************)
(* WordPressToGitHub._download_file and download_media                     *)
(*                                                                         *)
(* A content region is a record: found tells whether there is one (FALSE   *)
(* is Python's None), elems is the sequence of its elements in document    *)
(* order, each with its tag name and its src attribute (None when it has   *)
(* none).                                                                  *)
(* What the network and the disk answer to the download of element k is    *)
(* the input responses[k].                                                 *)
(***************************************************************************)
DefunctHost == "107.23.205.221"

NoContent == [ found |-> FALSE, elems |-> << >> ]

Content(elems) == [ found |-> TRUE, elems |-> elems ]

Responses == { "ok", "fetch_error", "write_error" }

\* re.sub(r'[^\w\-.]', '_', filename)
CleanFilename(f) ==
    Join([ k \in 1..Len(f) |->
            IF IsWordChar(Char(f, k)) \/ Char(f, k) \in {"-", "."}
            THEN Char(f, k) ELSE "_" ])

\* the path of the file written, None when nothing was downloaded
_download_file(media_url, destination_dir, post_slug, response) ==
    IF Contains(media_url, DefunctHost) THEN None
    ELSE IF response = "fetch_error" THEN None
    ELSE LET filename == post_slug \o "_" \o CleanFilename(basename(UrlPath(media_url)))
             filepath == PathJoin(destination_dir, filename)
         IN  IF response = "write_error" THEN None ELSE filepath

\* if not src
NoSrc(elem) == elem.src = None \/ elem.src = ""

MediaRef(type, media_url, local_path) ==
    [ type |-> type, original_url |-> media_url, local_path |-> local_path ]

\* a variant of DownloadElement that rewrites the source before it looks at the download
DownloadElement_RewriteFirst(elem, type, destination_dir, post_slug, response) ==
    IF NoSrc(elem) THEN [ elem |-> elem, refs |-> << >>, fetched |-> << >> ]
    ELSE LET media_url == urljoin(site_url, elem.src)
             local_path == _download_file(media_url, destination_dir, post_slug, response)
             rewritten == [ elem EXCEPT !.src = "../../media/" \o type \o "s/"
                                                \o post_slug \o "_"
                                                \o CleanFilename(basename(UrlPath(media_url))) ]
         IN  IF local_path # None
             THEN [ elem |-> rewritten, refs |-> << MediaRef(type, media_url, local_path) >>,
                    fetched |-> << media_url >> ]
             ELSE [ elem |-> rewritten, refs |-> << >>, fetched |-> << >> ]

\* the body of one round of either loop of download_media: the element as it is
\* left, the MediaRef entries appended, and the URLs requested from the network
DownloadElement(elem, type, destination_dir, post_slug, response) ==
    IF NoSrc(elem) THEN [ elem |-> elem, refs |-> << >>, fetched |-> << >> ]
    ELSE The({ The({ IF local_path # None
                     THEN [ elem |-> [ elem EXCEPT !.src = "../../media/" \o type \o "s/"
                                                           \o basename(local_path) ],
                            refs |-> << MediaRef(type, media_url, local_path) >>,
                            fetched |-> << media_url >> ]
                     ELSE [ elem |-> elem, refs |-> << >>,
                            fetched |-> IF Contains(media_url, DefunctHost)
                                        THEN << >> ELSE << media_url >> ] :
                        local_path \in { _download_file(media_url, destination_dir,
                                                        post_slug, response) } }) :
                  media_url \in { urljoin(site_url, elem.src) } })

RECURSIVE DownloadLoop(_, _, _, _, _, _)
\* one loop of download_media over the elements k.. of acc.soup whose tag is in names
DownloadLoop(acc, k, names, type, post_slug, responses) ==
    IF k > Len(acc.soup) THEN acc
    ELSE IF acc.soup[k].name \notin names
         THEN DownloadLoop(acc, k + 1, names, type, post_slug, responses)
    ELSE The({ The({ DownloadLoop(acc2, k + 1, names, type, post_slug, responses) :
                        acc2 \in { [ soup |-> [ acc.soup EXCEPT ![k] = r.elem ],
                                     media_files |-> acc.media_files \o r.refs,
                                     fetched |-> acc.fetched \o r.fetched ] } }) :
                  r \in { DownloadElement(acc.soup[k], type,
                                          IF type = "image" THEN images_dir ELSE videos_dir,
                                          post_slug, responses[k]) } })

\* download_media(content_html, post_slug): the pair (media_files, str(soup)), and
\* the URLs requested from the network on the way
download_media(content_html, post_slug, responses) ==
    IF ~content_html.found
    THEN [ media_files |-> << >>, updated_html |-> content_html, fetched |-> << >> ]
    ELSE The({ The({ [ media_files |-> videos.media_files,
                       updated_html |-> Content(videos.soup),
                       fetched |-> videos.fetched ] :
                        videos \in { DownloadLoop(images, 1, {"video", "source"}, "video",
                                                  post_slug, responses) } }) :
                  images \in { DownloadLoop([ soup |-> content_html.elems,
                                              media_files |-> << >>, fetched |-> << >> ],
                                            1, {"img"}, "image", post_slug, responses) } })

(***************************************************************************)
(* WordPressToGitHub._generate_slug                                        *)
(***************************************************************************)
Min(a, b) == IF a < b THEN a ELSE b

\* s[:n]
Prefix(s, n) == SubSeq(s, 1, Min(n, Len(s)))

RECURSIVE Split(_, _)
\* s.split(sep) for a separator of one character
Split(s, sep) ==
    The({ IF k > Len(s) THEN << s >>
          ELSE << SubSeq(s, 1, k - 1) >> \o Split(From(s, k + 1), sep) :
            k \in { FirstOf(s, 1, {sep}) } })

\* s.isdigit()
isdigit(s) == s # "" /\ \A k \in 1..Len(s) : IsDigit(Char(s, k))

RECURSIVE SelectSeq2(_, _)
\* [p for p in parts if p and not p.isdigit()]
NamedParts(parts) == SelectSeq2(parts, 1)
SelectSeq2(parts, k) ==
    IF k > Len(parts) THEN << >>
    ELSE (IF parts[k] # "" /\ ~isdigit(parts[k]) THEN << parts[k] >> ELSE << >>)
         \o SelectSeq2(parts, k + 1)

\* re.sub(r'[^\w\s-]', '', s)
KeepWordSpaceHyphen(s) ==
    Join([ k \in 1..Len(s) |->
            IF IsWordChar(Char(s, k)) \/ IsSpace(Char(s, k)) \/ Char(s, k) = "-"
            THEN Char(s, k) ELSE "" ])

\* re.sub(r'[cs]+', with, s) for the character set cs: every longest run of
\* characters of cs becomes one copy of with (written at the end of the run)
CollapseRuns(s, cs, with) ==
    Join([ k \in 1..Len(s) |->
            IF Char(s, k) \notin cs THEN Char(s, k)
            ELSE IF k < Len(s) /\ Char(s, k + 1) \in cs THEN "" ELSE with ])

Whitespace == { " ", "\t", "\n", "\r" }

\* hashlib.md5(url.encode()).hexdigest() of the URLs of the model
Md5Table ==
    { << "https://example.com/2024/01/15/42", "4c16d72510f71ce5dba615116f1a67a2" >>,
      << "https://example.com/2024/01/15/ab/", "4ffdc2c013d48257fc2f88f4b1ad3bd4" >> }

md5_hexdigest(u) == (CHOOSE p \in Md5Table : p[1] = u)[2]

HashLen == 12

\* hashlib.md5(url.encode()).hexdigest()[:12]
UrlHash(u) == Prefix(md5_hexdigest(u), HashLen)

MinSlugLen == 3
SlugCap == 50

\* slug = re.sub(r'[^\w\s-]', '', slug); slug = re.sub(r'[-\s]+', '-', slug)
CleanSlug(s) == CollapseRuns(KeepWordSpaceHyphen(s), Whitespace \cup {"-"}, "-")

_generate_slug(u, title) ==
    The({ The({ Prefix(IF slug = "" \/ Len(slug) < MinSlugLen THEN UrlHash(u) ELSE slug,
                       SlugCap) :
                  slug \in { Strip(IF path_parts # << >>
                                   THEN CleanSlug(path_parts[Len(path_parts)])
                                   ELSE CleanSlug(Lower(title)), "-") } }) :
            path_parts \in { NamedParts(Split(UrlPath(u), "/")) } })

(***************************************************************************)
(* datetime.fromisoformat, for the extended format every version accepts:  *)
(* YYYY-MM-DD, then nothing, or any one character and                      *)
(* HH[:MM[:SS[.fff[fff]]]] with an optional offset +HH:MM or -HH:MM.  The  *)
(* strings of the model are of this format or are refused by every version.*)
(***************************************************************************)
DigitVal(c) == (CHOOSE i \in 1..Len(DigitChars) : Char(DigitChars, i) = c) - 1

RECURSIVE Num(_)
\* int(s) for a string of digits
Num(s) == IF s = "" THEN 0 ELSE 10 * Num(SubSeq(s, 1, Len(s) - 1)) + DigitVal(Char(s, Len(s)))

IsLeap(y) == (y % 4 = 0 /\ y % 100 # 0) \/ y % 400 = 0

DaysInMonth(y, m) ==
    IF m = 2 THEN (IF IsLeap(y) THEN 29 ELSE 28)
    ELSE IF m \in {4, 6, 9, 11} THEN 30 ELSE 31

\* the date part: YYYY-MM-DD with a year, a month and a day that exist
IsIsoDate(d) ==
    /\ Len(d) = 10
    /\ DigitsAt(d, 1, 4) /\ LitAt(d, 5, "-") /\ DigitsAt(d, 6, 2) /\ LitAt(d, 8, "-")
    /\ DigitsAt(d, 9, 2)
    /\ Num(SubSeq(d, 1, 4)) >= 1
    /\ Num(SubSeq(d, 6, 7)) \in 1..12
    /\ Num(SubSeq(d, 9, 10)) \in 1..DaysInMonth(Num(SubSeq(d, 1, 4)), Num(SubSeq(d, 6, 7)))

\* HH[:MM[:SS[.fff[fff]]]] with values below the limits
IsIsoClock(t, hours) ==
    /\ Len(t) \in {2, 5, 8, 12, 15}
    /\ DigitsAt(t, 1, 2) /\ Num(SubSeq(t, 1, 2)) < hours
    /\ Len(t) >= 5 => LitAt(t, 3, ":") /\ DigitsAt(t, 4, 2) /\ Num(SubSeq(t, 4, 5)) < 60
    /\ Len(t) >= 8 => LitAt(t, 6, ":") /\ DigitsAt(t, 7, 2) /\ Num(SubSeq(t, 7, 8)) < 60
    /\ Len(t) >= 12 => LitAt(t, 9, ".") /\ DigitsAt(t, 10, Len(t) - 9)

\* the time part: a clock time and an optional offset
IsIsoTime(t) ==
    The({ IF k > Len(t) THEN IsIsoClock(t, 24)
          ELSE IsIsoClock(SubSeq(t, 1, k - 1), 24) /\ Len(From(t, k + 1)) \in {5, 8, 15}
               /\ IsIsoClock(From(t, k + 1), 24) :
            k \in { FirstOf(t, 1, {"+", "-"}) } })

\* datetime.fromisoformat(s) returns (TRUE) or raises ValueError (FALSE)
fromisoformat_ok(s) ==
    /\ Len(s) >= 10
    /\ IsIsoDate(SubSeq(s, 1, 10))
    /\ Len(s) # 11
    /\ Len(s) > 11 => IsIsoTime(From(s, 12))

\* s.replace(c, with) for one character c
ReplaceChar(s, c, with) ==
    Join([ k \in 1..Len(s) |->
            IF Char(s, k) = c THEN with ELSE Char(s, k) ])

\* datetime.now().strftime('%Y-%m-%d'), the day of the run
Today == "2026-11-05"

\* the time of day of datetime.now()
NowTime == "00:07:12"

\* the least number of a non-empty set of numbers
Least(ns) == CHOOSE n \in ns : \A m \in ns : n <= m

(***************************************************************************)
(* WordPressToGitHub.convert_to_markdown                                   *)
(*                                                                         *)
(* A post record has scraped = FALSE for Python's None.  write1 and write2 *)
(* are what the disk answers to the first and to the second attempt to     *)
(* write the artifact: "ok" or "OSError".                                  *)
(***************************************************************************)
\* date_str after the try block of lines 545-553
NormalizeDate(date) ==
    IF date = None THEN Today
    ELSE IF Contains(date, "T")
         THEN (IF fromisoformat_ok(ReplaceChar(date, "Z", "+00:00"))
               THEN Prefix(date, 10) ELSE Today)
    ELSE date

\* modified_str after lines 556-566
NormalizeModified(mod_date) ==
    IF mod_date = None \/ mod_date = "" THEN ""
    ELSE IF Contains(mod_date, "T")
         THEN (IF fromisoformat_ok(ReplaceChar(mod_date, "Z", "+00:00"))
               THEN Prefix(mod_date, 10) ELSE "")
    ELSE mod_date

TitleCap == 200

\* title = post_data['title'].strip(); ' '.join(title.split()); title[:200]
NormalizeTitle(title) ==
    Prefix(Strip(CollapseRuns(title, Whitespace, " "), " "), TitleCap)

RECURSIVE JsonItems(_, _)
JsonItems(items, k) ==
    IF k > Len(items) THEN ""
    ELSE (IF k > 1 THEN ", " ELSE "")
         \o "\"" \o ReplaceChar(ReplaceChar(items[k], "\\", "\\\\"), "\"", "\\\"") \o "\""
         \o JsonItems(items, k + 1)

\* json.dumps(items) for a list of ASCII strings
json_dumps(items) == "[" \o JsonItems(items, 1) \o "]"

\* the header block of lines 568-583
Frontmatter(post_data, title, date_str, modified_str) ==
    "---\n"
    \o "title: \"" \o ReplaceChar(title, "\"", "\\\"") \o "\"\n"
    \o "date: " \o date_str
    \o (IF modified_str # "" /\ modified_str # date_str
        THEN "\nmodified: " \o modified_str ELSE "")
    \o "\nauthor: " \o post_data.author
    \o "\ncategories: " \o json_dumps(post_data.categories)
    \o "\ntags: " \o json_dumps(post_data.tags)
    \o "\noriginal_url: " \o post_data.url
    \o "\n---\n\n"

\* re.sub(r'[^\w\-]', '-', slug)
WordOrHyphen(s) ==
    Join([ k \in 1..Len(s) |->
            IF IsWordChar(Char(s, k)) \/ Char(s, k) = "-" THEN Char(s, k) ELSE "-" ])

ShortSlugCap == 20

\* safe_slug of lines 589-595
SafeSlug(slug, u) ==
    The({ IF safe_slug = "" THEN UrlHash(u) ELSE safe_slug :
            safe_slug \in { Strip(CollapseRuns(Prefix(WordOrHyphen(slug), SlugCap),
                                               {"-"}, "-"), "-") } })

\* filename = f"{date_str}_{safe_slug}.md"
ArtifactName(date_str, safe_slug) == date_str \o "_" \o safe_slug \o ".md"

\* open(filepath, 'w') fails whatever the disk answers when a directory of the path
\* does not exist: the posts directory has no subdirectory
WriteFails(filename, answer) == answer = "OSError" \/ Contains(filename, "/")

\* what convert_to_markdown does with the file name: the artifact written and the
\* path returned, or the OSError of the second attempt
PersistArtifact(date_str, safe_slug, full_markdown, write1, write2) ==
    IF ~WriteFails(ArtifactName(date_str, safe_slug), write1)
    THEN [ status |-> "saved", filename |-> ArtifactName(date_str, safe_slug),
           text |-> full_markdown ]
    ELSE IF ~WriteFails(ArtifactName(date_str, Prefix(safe_slug, ShortSlugCap)), write2)
    THEN [ status |-> "saved",
           filename |-> ArtifactName(date_str, Prefix(safe_slug, ShortSlugCap)),
           text |-> full_markdown ]
    ELSE [ status |-> "raised", filename |-> None, text |-> full_markdown ]

\* a variant of NothingToConvert that looks at the post record only
NothingToConvert_PostOnly(post_data) == ~post_data.scraped

\* if not post_data or not post_data['content']
NothingToConvert(post_data) == ~post_data.scraped \/ ~post_data.content.found

\* the result of convert_to_markdown(post_data): status "none" (None returned),
\* "saved" (the path of filename returned) or "raised" (OSError); the media list and
\* the downloads made; the artifact written
convert_to_markdown(post_data, responses, write1, write2) ==
    IF NothingToConvert(post_data)
    THEN [ status |-> "none", filename |-> None, text |-> [ header |-> "", body |-> NoContent ],
           media |-> << >>, fetched |-> << >> ]
    ELSE The({ The({ The({ [ status |-> w.status, filename |-> w.filename, text |-> w.text,
                             media |-> dm.media_files, fetched |-> dm.fetched ] :
                              w \in { PersistArtifact(
                                         date_str, SafeSlug(slug, post_data.url),
                                         [ header |-> Frontmatter(
                                                        post_data,
                                                        NormalizeTitle(post_data.title),
                                                        date_str,
                                                        NormalizeModified(post_data.modified_date)),
                                           body |-> dm.updated_html ],
                                         write1, write2) } }) :
                        dm \in { download_media(post_data.content, slug, responses) },
                        date_str \in { NormalizeDate(post_data.date) } }) :
                  slug \in { _generate_slug(post_data.url, NormalizeTitle(post_data.title)) } })

(***************************************************************************)
(* WordPressToGitHub._extract_date                                         *)
(*                                                                         *)
(* A document is known by what the extractor reads of it: the content of   *)
(* the two meta tags, the time tags in document order, the linked-data     *)
(* block as json.loads gives it, the first element each date selector      *)
(* matches, and the href of the canonical link.  None is an absent tag or  *)
(* attribute, and JSON's null.                                             *)
(***************************************************************************)
\* if v, for a string or None
Truthy(v) == v # None /\ v # ""

\* datetime.now().isoformat()
Now == Today \o "T" \o NowTime \o ".123456"

\* the place of the first tag whose class list holds c, 0 if none: soup.find('time', class_=c)
FirstWithClass(tags, c) ==
    IF \E k \in 1..Len(tags) : \E n \in 1..Len(tags[k].class) : tags[k].class[n] = c
    THEN CHOOSE k \in 1..Len(tags) :
            /\ \E n \in 1..Len(tags[k].class) : tags[k].class[n] = c
            /\ \A j \in 1..(k - 1) : \A n \in 1..Len(tags[j].class) : tags[j].class[n] # c
    ELSE 0

\* the datetime of the tag of priority 3, None if there is no such tag or attribute
TimePublished(tags) ==
    IF FirstWithClass(tags, "published") # 0
    THEN tags[FirstWithClass(tags, "published")].datetime
    ELSE IF FirstWithClass(tags, "entry-date") # 0
    THEN tags[FirstWithClass(tags, "entry-date")].datetime
    ELSE None

\* any('updated' in c.lower() or 'modified' in c.lower() for c in classes)
IsUpdateTag(tag) ==
    \E n \in 1..Len(tag.class) :
        Contains(Lower(tag.class[n]), "updated") \/ Contains(Lower(tag.class[n]), "modified")

\* the tags that priority 4 returns from
DatedTimeTags(tags) ==
    { k \in 1..Len(tags) : ~IsUpdateTag(tags[k]) /\ Truthy(tags[k].datetime) }

\* the items of the linked data that priority 5 returns from
DatedItems(json_ld) ==
    { k \in 1..Len(json_ld.items) :
        /\ json_ld.items[k].is_dict
        /\ json_ld.items[k].keys \cap {"datePublished", "dateCreated"} # {} }

\* data['datePublished'] if the key is there, else data['dateCreated']
ItemDate(item) ==
    IF "datePublished" \in item.keys THEN item.datePublished ELSE item.dateCreated

\* whether priority 5 returns, from a dict or from the items of a list
JsonLdReturns(json_ld) ==
    json_ld.found /\ json_ld.data \in {"dict", "list"} /\ DatedItems(json_ld) # {}

\* s.strip()
StripSpace(s) ==
    IF \A k \in 1..Len(s) : IsSpace(Char(s, k)) THEN ""
    ELSE SubSeq(s, Least({ k \in 1..Len(s) : ~IsSpace(Char(s, k)) }),
                CHOOSE k \in 1..Len(s) :
                    ~IsSpace(Char(s, k)) /\ \A j \in (k + 1)..Len(s) : IsSpace(Char(s, j)))

\* the selectors whose element priority 6 returns from
DatedElems(elems) ==
    { k \in 1..Len(elems) :
        elems[k].found /\ (Truthy(elems[k].datetime) \/ StripSpace(elems[k].text) # "") }

\* the places of s where /(\d{4})/(\d{2})/(\d{2})/ matches
DateTriples(s) ==
    { p \in 1..Len(s) :
        /\ LitAt(s, p, "/") /\ DigitsAt(s, p + 1, 4)
        /\ LitAt(s, p + 5, "/") /\ DigitsAt(s, p + 6, 2)
        /\ LitAt(s, p + 8, "/") /\ DigitsAt(s, p + 9, 2) /\ LitAt(s, p + 11, "/") }

\* priority 7: f"{year}-{month}-{day}" of the first match
DateOfUrl(s) ==
    The({ SubSeq(s, p + 1, p + 4) \o "-" \o SubSeq(s, p + 6, p + 7) \o "-"
          \o SubSeq(s, p + 9, p + 10) : p \in { Least(DateTriples(s)) } })

_extract_date(soup) ==
    IF Truthy(soup.meta_published) THEN soup.meta_published
    ELSE IF Truthy(soup.meta_created) THEN soup.meta_created
    ELSE IF Truthy(TimePublished(soup.time_tags)) THEN TimePublished(soup.time_tags)
    ELSE IF DatedTimeTags(soup.time_tags) # {}
    THEN soup.time_tags[Least(DatedTimeTags(soup.time_tags))].datetime
    ELSE IF JsonLdReturns(soup.json_ld)
    THEN ItemDate(soup.json_ld.items[Least(DatedItems(soup.json_ld))])
    ELSE IF DatedElems(soup.date_elems) # {}
    THEN The({ IF Truthy(e.datetime) THEN e.datetime ELSE StripSpace(e.text) :
                 e \in { soup.date_elems[Least(DatedElems(soup.date_elems))] } })
    ELSE IF Truthy(soup.canonical) /\ DateTriples(soup.canonical) # {}
    THEN DateOfUrl(soup.canonical)
    ELSE Now

NoJsonLd == [ found |-> FALSE, data |-> "", items |-> << >> ]

NoDocument ==
    [ meta_published |-> None, meta_created |-> None, time_tags |-> << >>,
      json_ld |-> NoJsonLd, date_elems |-> << >>, canonical |-> None ]

(***************************************************************************)
(* State                                                                   *)
(***************************************************************************)
VARIABLES
    pc,             \* the place the program is at
    url,            \* _is_blog_post: the URL to classify
    is_post,        \* _is_blog_post: the value returned
    content_html,   \* download_media: the content region given
    post_slug,      \* download_media: the slug given
    responses,      \* download_media: what network and disk answer to each download
    media_files,    \* download_media: the MediaRef list returned
    updated_html,   \* download_media: the content returned
    post_data,      \* run: the post record of the URL at hand
    markdown_file,  \* run: what convert_to_markdown returned, the artifact's file name
    posts,          \* the disk: the files of posts_dir, file name -> text
    media_store,    \* the disk: the paths of the files of images_dir and videos_dir
    fetched,        \* the network: the media URLs requested so far
    post_urls,      \* discover_blog_posts: the set post_urls, in the order of insertion
    source,         \* discover_blog_posts: the place of the candidate at hand in its list
    page,           \* discover_blog_posts: i, the paginated page at hand
    accepted,       \* the post URLs accepted so far, added up over the sources
    link_pages,     \* the responses so far that carried links
    status_code,    \* discover_blog_posts: response.status_code of the last request
    requested,      \* the network: the candidate URLs requested so far
    discovered,     \* run: post_urls, the list discover_blog_posts returned
    i,              \* run: the place of the URL at hand in the list
    processed,      \* run: the counter processed
    failed,         \* run: the counter failed
    post_files,     \* run: the list post_files
    readme,         \* the disk: README.md, its entries
    summary,        \* the console: the counters the summary printed
    soup,           \* _extract_date: the document given
    publish_date    \* _extract_date: the value returned

clsVars == <<url, is_post>>
mediaVars == <<content_html, post_slug, responses, media_files, updated_html>>
postVars == <<post_data, markdown_file>>
diskVars == <<posts, media_store, fetched>>
discoveryVars == <<post_urls, source, page, accepted, link_pages, status_code, requested>>
loopVars == <<discovered, i, processed, failed, post_files>>
outVars == <<readme, summary>>
runVars == <<discoveryVars, loopVars, outVars>>

extractVars == <<soup, publish_date>>

vars == <<pc, clsVars, extractVars, mediaVars, postVars, diskVars, runVars>>

NonePost ==
    [ scraped |-> FALSE, url |-> "", title |-> "", date |-> "", modified_date |-> None,
      content |-> NoContent, author |-> "", categories |-> << >>, tags |-> << >>,
      media |-> << >> ]

\* the function f with x mapped to v
Put(f, x, v) == [ k \in DOMAIN f \cup {x} |-> IF k = x THEN v ELSE f[k] ]

\* a function with no argument: an empty directory
EmptyDir == [ k \in {} |-> "" ]

PostIdle == post_data = NonePost /\ markdown_file = None

DiskEmpty == posts = EmptyDir /\ media_store = {} /\ fetched = << >>

ClsIdle == url = "" /\ is_post = FALSE

ExtractIdle == soup = NoDocument /\ publish_date = None

DiscoveryIdle ==
    /\ post_urls = << >> /\ source = 0 /\ page = 0 /\ accepted = 0 /\ link_pages = 0
    /\ status_code = None /\ requested = << >>

LoopIdle ==
    discovered = << >> /\ i = 0 /\ processed = 0 /\ failed = 0 /\ post_files = << >>

OutIdle == readme = << >> /\ summary = << >>

RunIdle == DiscoveryIdle /\ LoopIdle /\ OutIdle

MediaIdle ==
    /\ content_html = NoContent /\ post_slug = "" /\ responses = << >>
    /\ media_files = << >> /\ updated_html = NoContent

(***************************************************************************)
(* The URL classifier on its own: every URL of a bounded family is         *)
(* classified once.                                                        *)
(***************************************************************************)
\* the longest generated slug
MaxSlugLen == 2

SlugAlphabet == {"a", "7", "B", "-"}

RECURSIVE SlugsOfLen(_)
SlugsOfLen(n) ==
    IF n = 0 THEN {""} ELSE { s \o c : s \in SlugsOfLen(n - 1), c \in SlugAlphabet }

GeneratedSlugs == UNION { SlugsOfLen(n) : n \in 0..MaxSlugLen }

NamedSlugs ==
    { "my-first-post", "about-us", "wp-tips", "contact-lenses", "terms-of-use",
      "photo.jpg", "My_Post", "category", "15" }

Origins ==
    { "https://example.com", "https://example.com.evil.org", "https://example.community",
      "https://example.com:8080", "https://example.com@evil.org",
      "http://example.com", "https://other.org", "HTTPS://EXAMPLE.COM" }

DatePrefixes == { "", "/2024", "/2024/01", "/2024/01/15", "/Blog/2024/01/15" }

Trailers == { "", "/", "/?p=1" }

SampleUrls ==
    { o \o d \o "/" \o s \o t :
        o \in Origins, d \in DatePrefixes, s \in GeneratedSlugs \cup NamedSlugs, t \in Trailers }

InitClassify ==
    /\ pc = "classify"
    /\ url \in SampleUrls
    /\ is_post = FALSE
    /\ ExtractIdle /\ MediaIdle /\ PostIdle /\ DiskEmpty /\ RunIdle

\* one call of _is_blog_post(url)
Classify ==
    /\ pc = "classify"
    /\ is_post' = _is_blog_post(url)
    /\ pc' = "classified"
    /\ UNCHANGED <<url, extractVars, mediaVars, postVars, diskVars, runVars>>

NextClassify == Classify

SpecClassify == InitClassify /\ [][NextClassify]_vars

(***************************************************************************)
(* The media downloader on its own: download_media is called once on each  *)
(* content region of a bounded family, with every answer of the network    *)
(* and the disk to each download.                                          *)
(***************************************************************************)
\* the most elements of a content region
MaxElems == 2

SampleSrcs == { "/wp-content/uploads/my pic.png", "clip.mp4" }

DefunctSrc == "http://107.23.205.221/old/pic.jpg"

\* an element and the answer to its download; the defunct host is never asked
MediaCases ==
    { [ name |-> "img", src |-> x, response |-> r ] : x \in SampleSrcs, r \in Responses }
    \cup { [ name |-> "video", src |-> "clip.mp4", response |-> r ] : r \in Responses }
    \cup { [ name |-> "source", src |-> "clip.mp4", response |-> r ] :
              r \in {"ok", "fetch_error"} }
    \cup { [ name |-> n, src |-> DefunctSrc, response |-> "ok" ] : n \in {"img", "video"} }
    \cup { [ name |-> n, src |-> None, response |-> "ok" ] : n \in {"img", "video"} }
    \cup { [ name |-> "img", src |-> "", response |-> "ok" ],
           [ name |-> "iframe", src |-> "https://player.example.net/embed/1",
             response |-> "ok" ] }

SampleSlugs == { "my-first-post" }

ElemOf(c) == [ name |-> c.name, src |-> c.src ]

InitMedia ==
    /\ pc = "download"
    /\ ClsIdle
    /\ \E n \in 0..MaxElems : \E q \in [ 1..n -> MediaCases ] :
          /\ content_html \in { NoContent, Content([ k \in 1..n |-> ElemOf(q[k]) ]) }
          /\ responses = [ k \in 1..n |-> q[k].response ]
    /\ post_slug \in SampleSlugs
    /\ media_files = << >>
    /\ updated_html = NoContent
    /\ ExtractIdle /\ PostIdle /\ DiskEmpty /\ RunIdle

\* one call of download_media(content_html, post_slug)
DownloadMedia ==
    /\ pc = "download"
    /\ \E r \in { download_media(content_html, post_slug, responses) } :
          media_files' = r.media_files /\ updated_html' = r.updated_html
    /\ pc' = "downloaded"
    /\ UNCHANGED <<clsVars, extractVars, content_html, post_slug, responses, postVars, diskVars, runVars>>

NextMedia == DownloadMedia

SpecMedia == InitMedia /\ [][NextMedia]_vars

(***************************************************************************)
(* The artifact writer on its own: convert_to_markdown is called once on   *)
(* each post record of a bounded family, with every answer of the network  *)
(* and the disk.                                                           *)
(***************************************************************************)
LongSlugUrl ==
    "https://example.com/2024/01/15/a-very-long-post-slug-that-goes-on-and-on-past-fifty-characters/"

SamplePostUrls ==
    { "https://example.com/2024/01/15/my-first-post",
      "https://example.com/2024/01/15/my-first-post/",
      "https://example.com/2024/02/caf%C3%A9_notes/?ref=home",
      "https://example.com/2024/01/15/42",
      "https://example.com/2024/01/15/ab/",
      LongSlugUrl }

SampleTitles == { "My First Post", "  He said\n \"hi\"  ", "Hi" }

SampleDates ==
    { "2024-03-15T10:00:00Z", "2024-03-15T23:30:00+02:00", "2026-11-05T00:07:12.123456",
      "2024-03-15", "2024-02-30T10:00:00Z", "Tuesday, 5 March", "Posted by admin",
      "January 15, 2024", "01/15/2024",
      "Published on the fifteenth of January by the site administrator", None }

SampleModified == { None, "2024-03-15T12:00:00Z", "2024-04-01T09:00:00Z", "last week" }

OneImage == << [ name |-> "img", src |-> "/wp-content/uploads/my pic.png" ] >>

SampleContents == { NoContent, Content(<< >>), Content(OneImage) }

WriteAnswers == { "ok", "OSError" }

SamplePosts ==
    { [ scraped |-> TRUE, url |-> u, title |-> t, date |-> d, modified_date |-> m,
        content |-> c, author |-> "Unknown", categories |-> << "News", "Tech \"tips\"" >>,
        tags |-> << >>, media |-> << >> ] :
        u \in SamplePostUrls, t \in SampleTitles, d \in SampleDates,
        m \in SampleModified, c \in SampleContents }

InitConvert ==
    /\ pc = "convert"
    /\ ClsIdle /\ ExtractIdle /\ MediaIdle /\ DiskEmpty /\ RunIdle
    /\ post_data \in SamplePosts
    /\ markdown_file = None

\* one call of convert_to_markdown(post_data) on an empty posts directory
ConvertPost ==
    /\ pc = "convert"
    /\ \E rs \in [ 1..Len(post_data.content.elems) -> Responses ],
          write1 \in WriteAnswers, write2 \in WriteAnswers :
          \E r \in { convert_to_markdown(post_data, rs, write1, write2) } :
            /\ post_data' = IF NothingToConvert(post_data) THEN post_data
                            ELSE [ post_data EXCEPT !.media = r.media ]
            /\ markdown_file' = r.filename
            /\ posts' = IF r.status = "saved" THEN Put(posts, r.filename, r.text) ELSE posts
            /\ media_store' = media_store
                                \cup { r.media[k].local_path : k \in 1..Len(r.media) }
            /\ fetched' = fetched \o r.fetched
            /\ pc' = IF r.status = "raised" THEN "raised" ELSE "converted"
    /\ UNCHANGED <<clsVars, extractVars, mediaVars, runVars>>

NextConvert == ConvertPost

SpecConvert == InitConvert /\ [][NextConvert]_vars

(***************************************************************************)
(* The date extractor on its own: _extract_date is called once on each     *)
(* document of a bounded family.                                           *)
(***************************************************************************)
TimeTag(class, datetime) == [ class |-> class, datetime |-> datetime ]

SampleTimeTags ==
    { << >>,
      << TimeTag(<< "Updated" >>, "2024-04-01T09:00:00Z"),
         TimeTag(<< "entry-date" >>, "2024-03-13T08:00:00Z") >>,
      << TimeTag(<< "published", "date" >>, None), TimeTag(<< >>, "2024-03-12") >> }

JsonItem(keys, datePublished, dateCreated) ==
    [ is_dict |-> TRUE, keys |-> keys, datePublished |-> datePublished,
      dateCreated |-> dateCreated ]

NotADict == [ is_dict |-> FALSE, keys |-> {}, datePublished |-> None, dateCreated |-> None ]

JsonLd(data, items) == [ found |-> TRUE, data |-> data, items |-> items ]

SampleJsonLd ==
    { NoJsonLd,
      JsonLd("invalid", << >>),
      JsonLd("dict", << JsonItem({"headline"}, None, None) >>),
      JsonLd("dict", << JsonItem({"datePublished", "dateCreated"}, "2024-03-11", "2024-03-01") >>),
      JsonLd("dict", << JsonItem({"datePublished"}, None, None) >>),
      JsonLd("dict", << JsonItem({"dateCreated"}, None, None) >>),
      JsonLd("list", << NotADict, JsonItem({"name"}, None, None),
                        JsonItem({"dateCreated"}, None, "2024-03-10") >>) }

DateElem(datetime, text) == [ found |-> TRUE, datetime |-> datetime, text |-> text ]

NoElem == [ found |-> FALSE, datetime |-> None, text |-> "" ]

\* the first elements that .published, .entry-date.published, .post-date,
\* [itemprop="datePublished"] and [itemprop="dateCreated"] match
SampleDateElems ==
    { << NoElem, NoElem, NoElem, NoElem, NoElem >>,
      << NoElem, NoElem, DateElem(None, "\n  Posted by admin "), NoElem, NoElem >>,
      << DateElem(None, " \n "), NoElem, NoElem, DateElem("2024-03-08", "March 8"), NoElem >> }

\* a time tag of class published is an element that the selector .published matches
SampleDocuments ==
    { doc \in
        { [ meta_published |-> mp, meta_created |-> mc, time_tags |-> tt, json_ld |-> jl,
            date_elems |-> de, canonical |-> cl ] :
            mp \in { None, "", "2024-03-15T10:00:00Z" },
            mc \in { None, "2024-03-14T09:00:00Z" },
            tt \in SampleTimeTags, jl \in SampleJsonLd, de \in SampleDateElems,
            cl \in { None, "https://example.com/about/",
                     "https://example.com/2024/03/07/my-first-post/" } } :
        FirstWithClass(doc.time_tags, "published") # 0 => doc.date_elems[1].found }

InitExtract ==
    /\ pc = "extract"
    /\ soup \in SampleDocuments
    /\ publish_date = None
    /\ ClsIdle /\ MediaIdle /\ PostIdle /\ DiskEmpty /\ RunIdle

\* one call of _extract_date(soup)
ExtractDate ==
    /\ pc = "extract"
    /\ publish_date' = _extract_date(soup)
    /\ pc' = "extracted"
    /\ UNCHANGED <<soup, clsVars, mediaVars, postVars, diskVars, runVars>>

NextExtract == ExtractDate

SpecExtract == InitExtract /\ [][NextExtract]_vars

(***************************************************************************)
(* WordPressToGitHub.discover_blog_posts                                   *)
(*                                                                         *)
(* The set post_urls is a sequence without repetition in the order of      *)
(* insertion.  A response is what one GET brings: an exception, a status   *)
(* other than 200, or status 200 and the loc texts or hrefs of the         *)
(* document.                                                               *)
(***************************************************************************)
pages_to_check ==
    << site_url \o "/", site_url \o "/blog/", site_url \o "/posts/", site_url \o "/archives/" >>

sitemap_urls ==
    << site_url \o "/sitemap.xml", site_url \o "/sitemap_index.xml",
       site_url \o "/wp-sitemap.xml" >>

\* range(2, 20)
PageStart == 2
PageStop == 20

\* a list in place of the set: every URL added is appended
ListAppend(set, u) == Append(set, u)

\* post_urls.add(u)
SetAdd(set, u) == IF \E k \in 1..Len(set) : set[k] = u THEN set ELSE Append(set, u)

RECURSIVE AddPosts(_, _, _)
\* for url in urls[k..]: if self._is_blog_post(url): post_urls.add(url)
AddPosts(set, urls, k) ==
    IF k > Len(urls) THEN set
    ELSE The({ AddPosts(next, urls, k + 1) :
                 next \in { IF _is_blog_post(urls[k]) THEN SetAdd(set, urls[k]) ELSE set } })

\* the loop over the loc elements of a site map
AddLocs(set, locs) == AddPosts(set, locs, 1)

\* the loop over the links of a listing page
AddLinks(set, hrefs) ==
    AddPosts(set, [ k \in 1..Len(hrefs) |-> urljoin(site_url, hrefs[k]) ], 1)

\* the post URLs that one source reports
PostsOf(urls) == { urls[k] : k \in { n \in 1..Len(urls) : _is_blog_post(urls[n]) } }

\* list(post_urls): the elements of the set in any order
ListsOf(set) ==
    { [ k \in 1..Len(set) |-> set[p[k]] ] : p \in Permutations(1..Len(set)) }

\* the most responses of one run that carry links
MaxLinkPages == 2

FirstPostUrl == "https://example.com/2024/01/15/my-first-post"
SecondPostUrl == "https://example.com/2024/01/15/second-post"

SampleLinks ==
    { << >>,
      << "/2024/01/15/my-first-post", "/about/" >>,
      << FirstPostUrl \o "/", FirstPostUrl >>,
      << SecondPostUrl, "https://example.com/2024/01/15/", SecondPostUrl >> }

SiteResponses ==
    { [ status |-> "exception", links |-> << >> ], [ status |-> "404", links |-> << >> ] }
    \cup { [ status |-> "200", links |-> l ] : l \in SampleLinks }

\* the responses the network may still give
ResponsesLeft ==
    { r \in SiteResponses : r.links = << >> \/ link_pages < MaxLinkPages }

LinksSeen(r) == IF r.links = << >> THEN link_pages ELSE link_pages + 1

\* run() has been called on a new object with an output directory that did not exist
Init ==
    /\ pc = "sitemaps"
    /\ post_urls = << >> /\ source = 1 /\ page = 0 /\ accepted = 0 /\ link_pages = 0
    /\ status_code = None /\ requested = << >>
    /\ ClsIdle /\ ExtractIdle /\ MediaIdle /\ PostIdle /\ DiskEmpty /\ LoopIdle /\ OutIdle

\* the round without its try: what session.get raises leaves discover_blog_posts
CheckSitemap_Unguarded ==
    /\ pc = "sitemaps"
    /\ \E r \in ResponsesLeft :
          /\ post_urls' = IF r.status = "200" THEN AddLocs(post_urls, r.links) ELSE post_urls
          /\ accepted' = IF r.status = "200"
                         THEN accepted + Cardinality(PostsOf(r.links)) ELSE accepted
          /\ link_pages' = LinksSeen(r)
          /\ status_code' = r.status
          /\ IF r.status = "exception" THEN source' = source /\ pc' = "crashed"
             ELSE IF source < Len(sitemap_urls)
             THEN source' = source + 1 /\ pc' = pc
             ELSE source' = 1 /\ pc' = "archives"
    /\ requested' = Append(requested, sitemap_urls[source])
    /\ UNCHANGED <<page, clsVars, extractVars, mediaVars, postVars, diskVars, loopVars, outVars>>

\* one round of the loop over sitemap_urls
CheckSitemap ==
    /\ pc = "sitemaps"
    /\ \E r \in ResponsesLeft :
          /\ post_urls' = IF r.status = "200" THEN AddLocs(post_urls, r.links) ELSE post_urls
          /\ accepted' = IF r.status = "200"
                         THEN accepted + Cardinality(PostsOf(r.links)) ELSE accepted
          /\ link_pages' = LinksSeen(r)
          /\ status_code' = r.status
    /\ requested' = Append(requested, sitemap_urls[source])
    /\ IF source < Len(sitemap_urls)
       THEN source' = source + 1 /\ pc' = pc
       ELSE source' = 1 /\ pc' = "archives"
    /\ UNCHANGED <<page, clsVars, extractVars, mediaVars, postVars, diskVars, loopVars, outVars>>

\* the loop over pages_to_check goes on to its next round, or ends
NextArchive ==
    /\ page' = 0
    /\ IF source < Len(pages_to_check)
       THEN source' = source + 1 /\ pc' = "archives"
       ELSE source' = 0 /\ pc' = "return"

\* one round of the loop over pages_to_check, up to its first paginated page
CheckArchive ==
    /\ pc = "archives"
    /\ \E r \in ResponsesLeft :
          /\ link_pages' = LinksSeen(r)
          /\ status_code' = r.status
          /\ IF r.status = "200"
             THEN /\ post_urls' = AddLinks(post_urls, r.links)
                  /\ accepted' = accepted
                        + Cardinality(PostsOf([ k \in 1..Len(r.links) |->
                                                  urljoin(site_url, r.links[k]) ]))
                  /\ page' = PageStart /\ source' = source /\ pc' = "pagination"
             ELSE /\ UNCHANGED <<post_urls, accepted>>
                  /\ NextArchive
    /\ requested' = Append(requested, pages_to_check[source])
    /\ UNCHANGED <<clsVars, extractVars, mediaVars, postVars, diskVars, loopVars, outVars>>

\* the round with continue in place of break: the page after a failed one is requested
CheckNextPage_Continue ==
    /\ pc = "pagination"
    /\ \E r \in ResponsesLeft :
          /\ link_pages' = LinksSeen(r)
          /\ status_code' = r.status
          /\ IF r.status = "200"
             THEN /\ post_urls' = AddLinks(post_urls, r.links)
                  /\ accepted' = accepted
                        + Cardinality(PostsOf([ k \in 1..Len(r.links) |->
                                                  urljoin(site_url, r.links[k]) ]))
                  /\ pc' = "pause"
                  /\ UNCHANGED <<source, page>>
             ELSE /\ UNCHANGED <<post_urls, accepted>>
                  /\ IF page + 1 < PageStop
                     THEN page' = page + 1 /\ source' = source /\ pc' = pc
                     ELSE NextArchive
    /\ UNCHANGED <<requested, clsVars, extractVars, mediaVars, postVars, diskVars, loopVars, outVars>>

\* one round of the pagination loop, up to its sleep
CheckNextPage ==
    /\ pc = "pagination"
    /\ \E r \in ResponsesLeft :
          /\ link_pages' = LinksSeen(r)
          /\ status_code' = r.status
          /\ IF r.status = "200"
             THEN /\ post_urls' = AddLinks(post_urls, r.links)
                  /\ accepted' = accepted
                        + Cardinality(PostsOf([ k \in 1..Len(r.links) |->
                                                  urljoin(site_url, r.links[k]) ]))
                  /\ pc' = "pause"
                  /\ UNCHANGED <<source, page>>
             ELSE /\ UNCHANGED <<post_urls, accepted>>
                  /\ NextArchive
    /\ UNCHANGED <<requested, clsVars, extractVars, mediaVars, postVars, diskVars, loopVars, outVars>>

\* time.sleep(0.5), and the pagination loop goes on to its next round, or ends
Pause ==
    /\ pc = "pause"
    /\ IF page + 1 < PageStop
       THEN page' = page + 1 /\ source' = source /\ pc' = "pagination"
       ELSE NextArchive
    /\ UNCHANGED <<post_urls, accepted, link_pages, status_code, requested>>
    /\ UNCHANGED <<clsVars, extractVars, mediaVars, postVars, diskVars, loopVars, outVars>>

\* return list(post_urls)
DiscoverReturn ==
    /\ pc = "return"
    /\ discovered' \in ListsOf(post_urls)
    /\ pc' = "discovered"
    /\ UNCHANGED <<discoveryVars, i, processed, failed, post_files>>
    /\ UNCHANGED <<clsVars, extractVars, mediaVars, postVars, diskVars, outVars>>

(***************************************************************************)
(* WordPressToGitHub.create_index                                          *)
(*                                                                         *)
(* README.md is the sequence of its lines.  A file of posts_dir is known   *)
(* by its name; content is the text of its header block, which is where    *)
(* both patterns find their first match.                                   *)
(***************************************************************************)
CodePoints ==
    " !\"#$%&'()*+,-./0123456789:;<=>?@ABCDEFGHIJKLMNOPQRSTUVWXYZ[\\]^_abcdefghijklmnopqrstuvwxyz{|}~"

\* the place of a printable ASCII character other than the grave accent in the order
\* of the code points
Ord(c) == Find(CodePoints, c)

\* a < b for two strings
StrLess(a, b) ==
    \E k \in 1..(Min(Len(a), Len(b)) + 1) :
        /\ SubSeq(a, 1, k - 1) = SubSeq(b, 1, k - 1)
        /\ \/ k > Len(a) /\ k <= Len(b)
           \/ k <= Len(a) /\ k <= Len(b) /\ Ord(Char(a, k)) < Ord(Char(b, k))

\* the sequence q without its element k
Without(q, k) == SubSeq(q, 1, k - 1) \o SubSeq(q, k + 1, Len(q))

RECURSIVE sorted(_)
\* sorted(post_files)
sorted(q) ==
    IF q = << >> THEN << >>
    ELSE The({ << q[k] >> \o sorted(Without(q, k)) :
                 k \in { CHOOSE n \in 1..Len(q) :
                            /\ \A m \in 1..Len(q) : ~StrLess(q[m], q[n])
                            /\ \A m \in 1..(n - 1) : q[m] # q[n] } })

\* re.search of the title pattern in content (line 670): whether it matches, and
\* group(1), the shortest text between title: " and a later " of the same line
SearchTitle(content) ==
    The({ IF starts = {} THEN [ matched |-> FALSE, group |-> "" ]
          ELSE [ matched |-> TRUE,
                 group |-> SubSeq(content, Least(starts) + 8,
                                  FirstOf(content, Least(starts) + 8, {"\""}) - 1) ] :
            starts \in { { p \in 1..Len(content) :
                             /\ LitAt(content, p, "title: \"")
                             /\ FirstOf(content, p + 8, {"\""})
                                   < FirstOf(content, p + 8, {"\n"}) } } })

\* re.search of the date pattern in content (line 671): whether it matches, and
\* group(1), the text between date: and the end of the line
SearchDate(content) ==
    The({ IF starts = {} THEN [ matched |-> FALSE, group |-> "" ]
          ELSE [ matched |-> TRUE,
                 group |-> SubSeq(content, Least(starts) + 6,
                                  FirstOf(content, Least(starts) + 6, {"\n"}) - 1) ] :
            starts \in { { p \in 1..Len(content) : LitAt(content, p, "date: ") } } })

\* Path(name).stem
stem(name) == IF LastOf(name, ".") > 1 THEN SubSeq(name, 1, LastOf(name, ".") - 1) ELSE name

\* the line of README.md for one post file
IndexEntry(name, content) ==
    The({ "- [" \o (IF t.matched THEN t.group ELSE stem(name)) \o "](posts/" \o name \o ") - "
          \o (IF d.matched THEN d.group ELSE "") :
            t \in { SearchTitle(content) }, d \in { SearchDate(content) } })

\* the lines of the README.md that create_index(post_files) writes
create_index(files, dir, media) ==
    << "# Blog Backup from " \o site_url,
       "",
       "Generated on: " \o Today \o " " \o NowTime,
       "",
       "## Statistics",
       "- Total posts: " \o ToString(Len(files)),
       "- Total media files: "
          \o ToString(Cardinality({ f \in media : StartsWith(f, images_dir \o "/") }))
          \o " images, "
          \o ToString(Cardinality({ f \in media : StartsWith(f, videos_dir \o "/") }))
          \o " videos",
       "",
       "## Posts",
       "" >>
    \o The({ [ k \in 1..Len(names) |-> IndexEntry(names[k], dir[names[k]].header) ] :
               names \in { sorted(files) } })

(***************************************************************************)
(* WordPressToGitHub.run                                                   *)
(***************************************************************************)
SamplePages ==
    { [ title |-> "My First Post", date |-> "2024-03-15T10:00:00Z", modified_date |-> None,
        content |-> Content(OneImage) ],
      [ title |-> "My First Post", date |-> "2024-03-15T10:00:00Z", modified_date |-> None,
        content |-> NoContent ],
      [ title |-> "Old \"news\"", date |-> "01/15/2024", modified_date |-> "last week",
        content |-> Content(<< >>) ],
      [ title |-> "Say \"hi\"", date |-> "Posted by admin", modified_date |-> None,
        content |-> Content(<< >>) ] }

\* what scrape_post(u) may return: None, or the post record of the document fetched
ScrapeResults(u) ==
    { NonePost }
    \cup { [ scraped |-> TRUE, url |-> u, title |-> d.title, date |-> d.date,
             modified_date |-> d.modified_date, content |-> d.content,
             author |-> "Unknown", categories |-> << >>, tags |-> << >>,
             media |-> << >> ] : d \in SamplePages }

\* post_urls = self.discover_blog_posts() has returned: the early return, or the
\* start of the loop
StartLoop ==
    /\ pc = "discovered"
    /\ IF discovered = << >>
       THEN pc' = "done" /\ i' = i
       ELSE pc' = "scrape" /\ i' = 1
    /\ processed' = 0 /\ failed' = 0 /\ post_files' = << >>
    /\ post_urls' = << >> /\ source' = 0 /\ page' = 0 /\ accepted' = 0 /\ link_pages' = 0
    /\ status_code' = None /\ requested' = << >>
    /\ UNCHANGED <<discovered, clsVars, extractVars, mediaVars, postVars, diskVars, outVars>>

\* post_data = self.scrape_post(url), and the else branch of "if post_data"
ScrapePost ==
    /\ pc = "scrape"
    /\ post_data' \in ScrapeResults(discovered[i])
    /\ markdown_file' = None
    /\ IF post_data'.scraped
       THEN pc' = "convert" /\ failed' = failed
       ELSE pc' = "sleep" /\ failed' = failed + 1
    /\ UNCHANGED <<discovered, i, processed, post_files>>
    /\ UNCHANGED <<clsVars, extractVars, mediaVars, diskVars, discoveryVars, outVars>>

\* markdown_file = self.convert_to_markdown(post_data), and what run() does with it;
\* an OSError of convert_to_markdown leaves run()
ConvertScraped ==
    /\ pc = "convert"
    /\ \E rs \in [ 1..Len(post_data.content.elems) -> Responses ],
          write1 \in WriteAnswers, write2 \in WriteAnswers :
          \E r \in { convert_to_markdown(post_data, rs, write1, write2) } :
            /\ post_data' = IF NothingToConvert(post_data) THEN post_data
                            ELSE [ post_data EXCEPT !.media = r.media ]
            /\ markdown_file' = r.filename
            /\ posts' = IF r.status = "saved" THEN Put(posts, r.filename, r.text) ELSE posts
            /\ media_store' = media_store
                                \cup { r.media[k].local_path : k \in 1..Len(r.media) }
            /\ fetched' = fetched \o r.fetched
            /\ post_files' = IF r.status = "saved"
                             THEN Append(post_files, r.filename) ELSE post_files
            /\ processed' = IF r.status = "saved" THEN processed + 1 ELSE processed
            /\ failed' = IF r.status = "none" THEN failed + 1 ELSE failed
            /\ pc' = IF r.status = "raised" THEN "crashed" ELSE "sleep"
    /\ UNCHANGED <<discovered, i, clsVars, extractVars, mediaVars, discoveryVars, outVars>>

\* time.sleep(1), and the loop goes on to its next round, or ends
Sleep ==
    /\ pc = "sleep"
    /\ IF i < Len(discovered)
       THEN i' = i + 1 /\ pc' = "scrape"
       ELSE i' = i /\ pc' = "index"
    /\ UNCHANGED <<discovered, processed, failed, post_files>>
    /\ UNCHANGED <<clsVars, extractVars, mediaVars, postVars, diskVars, discoveryVars, outVars>>

\* if post_files: self.create_index(post_files)
CreateIndex ==
    /\ pc = "index"
    /\ readme' = IF post_files # << >>
                 THEN create_index(post_files, posts, media_store) ELSE readme
    /\ pc' = "summary"
    /\ UNCHANGED <<summary, clsVars, extractVars, mediaVars, postVars, diskVars, discoveryVars, loopVars>>

\* the summary printed
Summary ==
    /\ pc = "summary"
    /\ summary' = << processed, failed >>
    /\ pc' = "done"
    /\ UNCHANGED <<readme, clsVars, extractVars, mediaVars, postVars, diskVars, discoveryVars, loopVars>>

Next ==
    \/ CheckSitemap
    \/ CheckArchive
    \/ CheckNextPage
    \/ Pause
    \/ DiscoverReturn
    \/ StartLoop
    \/ ScrapePost
    \/ ConvertScraped
    \/ Sleep
    \/ CreateIndex
    \/ Summary

Spec == Init /\ [][Next]_vars

\* discover_blog_posts on its own, up to its return: the code is sequential, a step
\* that can be taken is taken
NextDiscover ==
    \/ CheckSitemap
    \/ CheckArchive
    \/ CheckNextPage
    \/ Pause
    \/ DiscoverReturn

SpecDiscover == Init /\ [][NextDiscover]_vars /\ WF_vars(NextDiscover)

(***************************************************************************)
(* Properties of the URL classifier                                        *)
(***************************************************************************)
\* path is /{4-digit}/{2-digit}/{2-digit}/{slug}, with or without a closing slash;
\* a slug is any non-empty text without a slash
HasDatedSlugForm(path) ==
    /\ LitAt(path, 1, "/") /\ DigitsAt(path, 2, 4)
    /\ LitAt(path, 6, "/") /\ DigitsAt(path, 7, 2)
    /\ LitAt(path, 9, "/") /\ DigitsAt(path, 10, 2)
    /\ LitAt(path, 12, "/")
    /\ LET rest == From(path, 13)
           slug == IF rest # "" /\ Char(rest, Len(rest)) = "/"
                   THEN SubSeq(rest, 1, Len(rest) - 1) ELSE rest
       IN  slug # "" /\ ~Contains(slug, "/")

\* path is exactly /YYYY/, /YYYY/MM/ or /YYYY/MM/DD/
IsBareDatePath(path) ==
    /\ LitAt(path, 1, "/") /\ DigitsAt(path, 2, 4) /\ LitAt(path, 6, "/")
    /\ \/ Len(path) = 6
       \/ Len(path) = 9 /\ DigitsAt(path, 7, 2) /\ LitAt(path, 9, "/")
       \/ /\ Len(path) = 12 /\ DigitsAt(path, 7, 2) /\ LitAt(path, 9, "/")
          /\ DigitsAt(path, 10, 2) /\ LitAt(path, 12, "/")

\* the URL holds a term of the exclusion vocabulary, as written
HoldsExclusionTerm(u) == \E k \in 1..Len(excluded) : Contains(u, excluded[k])

\* the host and port of a URL: the network location without the user information
HostPort(u) == LET n == UrlNetloc(u) IN Lower(From(n, LastOf(n, "@") + 1))

UrlHost(u) == LET hp == HostPort(u) IN SubSeq(hp, 1, FirstOf(hp, 1, {":"}) - 1)

UrlPort(u) ==
    LET hp == HostPort(u)
        k == FirstOf(hp, 1, {":"})
    IN  IF k < Len(hp) THEN From(hp, k + 1)
        ELSE IF UrlScheme(u) = "https" THEN "443" ELSE "80"

\* same scheme, host and port
SameOrigin(u, v) ==
    UrlScheme(u) = UrlScheme(v) /\ UrlHost(u) = UrlHost(v) /\ UrlPort(u) = UrlPort(v)

C8_RejectionTakesPrecedence ==
    (pc = "classified" /\ (HoldsExclusionTerm(url) \/ IsBareDatePath(UrlPath(url))))
    => ~is_post

\* C8 witness: a URL of the site with the path /YYYY/MM/DD/, which satisfies the
\* /YYYY/MM/slug pattern, has been rejected.
C8_Witness ==
    /\ pc = "classified" /\ ~is_post
    /\ StartsWith(url, site_url) /\ ~HoldsExclusionTerm(Lower(url))
    /\ IsBareDatePath(UrlPath(url))
    /\ MatchesPostPattern(PostPath(url))

\* C8 witness, second case: a URL of the site with an exclusion term whose path
\* satisfies the dated-slug pattern has been rejected.
C8_WitnessExcluded ==
    /\ pc = "classified" /\ ~is_post
    /\ StartsWith(url, site_url) /\ HoldsExclusionTerm(url)
    /\ SearchDayPattern(PostPath(url))

\* C9, as claimed: every URL that _is_blog_post accepts has the scheme, host and port
\* of the site's base URL.
C9_AcceptedIsSameOrigin ==
    (pc = "classified" /\ is_post) => SameOrigin(url, site_url)

(***************************************************************************)
(* Properties of the media downloader                                      *)
(***************************************************************************)
\* element k of the content given is an image, video or source element with a source
IsMediaWithSrc(k) ==
    LET e == content_html.elems[k]
    IN  e.name \in {"img", "video", "source"} /\ e.src # None /\ e.src # ""

\* the download of element k succeeded: its host is not the defunct one, the fetch
\* and the write went well
DownloadSucceeded(k) ==
    /\ IsMediaWithSrc(k)
    /\ ~Contains(urljoin(site_url, content_html.elems[k].src), DefunctHost)
    /\ responses[k] = "ok"

\* a relative path into the media store
IsLocalMediaPath(x) ==
    StartsWith(x, "../../media/images/") \/ StartsWith(x, "../../media/videos/")

\* C3: an image, video or source element with a source is rewritten to a local relative
\* path, and has a MediaRef, if and only if its download succeeded; a failed download
\* leaves the source as it was and adds no MediaRef, every other element is untouched.
C3_RewrittenIffDownloaded ==
    (pc = "downloaded" /\ content_html.found) =>
        /\ updated_html.found
        /\ Len(updated_html.elems) = Len(content_html.elems)
        /\ \A k \in 1..Len(content_html.elems) :
              LET e == content_html.elems[k]
                  u == updated_html.elems[k]
              IN  IF DownloadSucceeded(k)
                  THEN /\ u.name = e.name
                       /\ IsLocalMediaPath(u.src)
                       /\ \E m \in 1..Len(media_files) :
                             /\ media_files[m].original_url = urljoin(site_url, e.src)
                             /\ basename(media_files[m].local_path) = basename(u.src)
                  ELSE u = e
        /\ Len(media_files) =
              Cardinality({ k \in 1..Len(content_html.elems) : DownloadSucceeded(k) })

\* C3 witness: of two elements with a source, one was downloaded and rewritten, the
\* other failed and still has its source.
C3_Witness ==
    /\ pc = "downloaded" /\ content_html.found
    /\ Len(content_html.elems) = 2
    /\ \E j, k \in 1..2 :
          /\ DownloadSucceeded(j) /\ IsLocalMediaPath(updated_html.elems[j].src)
          /\ IsMediaWithSrc(k) /\ ~DownloadSucceeded(k)
          /\ updated_html.elems[k].src = content_html.elems[k].src
    /\ Len(media_files) = 1

\* C3 witness, all downloads failed: no MediaRef, the content as it was.
C3_WitnessAllFailed ==
    /\ pc = "downloaded" /\ content_html.found
    /\ Len(content_html.elems) = 2
    /\ \A k \in 1..2 : IsMediaWithSrc(k) /\ ~DownloadSucceeded(k)
    /\ media_files = << >>
    /\ updated_html = content_html

(***************************************************************************)
(* Properties of the artifact writer                                       *)
(***************************************************************************)
\* the name is made of word characters and hyphens and ends with the extension .md
IsSafeFileName(name) ==
    /\ Len(name) > Len(".md")
    /\ From(name, Len(name) - Len(".md") + 1) = ".md"
    /\ \A k \in 1..(Len(name) - Len(".md")) :
          IsWordChar(Char(name, k)) \/ Char(name, k) = "-"

\* the length of the longest name of the form YYYY-MM-DD_slug.md
FileNameBound == Len(ArtifactName(Today, "")) + SlugCap

\* C4, as claimed: every file name that convert_to_markdown persists is made of word
\* characters, hyphens, the underscore separator and the extension, and is no longer
\* than the bound of a YYYY-MM-DD_slug.md name, whatever the slug and the date string.
C4_FileNameSafeAndBounded ==
    \A name \in DOMAIN posts : IsSafeFileName(name) /\ Len(name) <= FileNameBound

\* the date string is an ISO timestamp: a date, the letter T and a time
IsIsoTimestamp(date) ==
    date # None /\ Contains(date, "T") /\ fromisoformat_ok(ReplaceChar(date, "Z", "+00:00"))

\* the date string is absent, or the parser refuses it
CannotBeParsed(date) == date = None \/ ~fromisoformat_ok(ReplaceChar(date, "Z", "+00:00"))

\* the artifact written last has the date d in its header and in its file name
ArtifactDateIs(d) ==
    /\ StartsWith(markdown_file, d \o "_")
    /\ Contains(posts[markdown_file].header, "\ndate: " \o d \o "\n")

\* C10, as claimed: the publish date in the header and in the file name of an artifact
\* is the YYYY-MM-DD date of an ISO timestamp, and the current date when the publish
\* date string cannot be parsed as a date.
C10_PublishDateIsNormalized ==
    (pc = "converted" /\ markdown_file # None)
    => /\ IsIsoTimestamp(post_data.date) => ArtifactDateIs(Prefix(post_data.date, 10))
       /\ CannotBeParsed(post_data.date) => ArtifactDateIs(Today)

(***************************************************************************)
(* Properties of the run                                                   *)
(***************************************************************************)
\* C1, as claimed: a run that has ended after a non-empty discovery has handled every
\* discovered URL and has printed the summary, whatever failed for single posts.
C1_FailureIsFatalForOnePostOnly ==
    (pc \in {"done", "crashed"} /\ discovered # << >>)
    => /\ summary # << >>
       /\ i = Len(discovered)
       /\ processed + failed = Len(discovered)

\* C2: the conversion of a post record whose content region is absent returns None,
\* requests no media, writes no file, and run() adds no artifact location.
C2_AbsentContentYieldsNoArtifact ==
    [][ (pc = "convert" /\ ~post_data.content.found)
        => /\ markdown_file' = None
           /\ posts' = posts /\ media_store' = media_store /\ fetched' = fetched
           /\ post_files' = post_files /\ processed' = processed
           /\ failed' = failed + 1 ]_vars

\* C2 witness: after an artifact was written, a post record with absent content has
\* been through convert_to_markdown.
C2_Witness ==
    /\ pc = "sleep" /\ post_data.scraped /\ ~post_data.content.found
    /\ markdown_file = None /\ failed > 0 /\ processed > 0

\* C5, as claimed: the posts directory holds one artifact for each post counted as
\* processed, so no artifact was overwritten by a later post.
C5_OneArtifactPerProcessedPost == Cardinality(DOMAIN posts) = processed

\* no element occurs twice in the sequence q
NoDuplicates(q) == \A a, b \in 1..Len(q) : q[a] = q[b] => a = b

\* C6: the list discover_blog_posts returns holds no URL twice, and it is no longer
\* than the sum over the sources of the number of post URLs accepted from each.
C6_DiscoveryHasNoDuplicates ==
    pc = "discovered" => NoDuplicates(discovered) /\ Len(discovered) <= accepted

\* C6 witness: the list returned holds several URLs, and the sources reported more
\* post URLs than it holds.
C6_Witness ==
    /\ pc = "discovered" /\ Len(discovered) > 1 /\ accepted > Len(discovered)

(***************************************************************************)
(* Properties of the index                                                 *)
(***************************************************************************)
\* the lines of README.md that are entries
IndexEntries == SelectSeq(readme, LAMBDA line : StartsWith(line, "- ["))

\* line n of a header block
HeaderLine(header, n) == Split(header, "\n")[n]

\* the text with every escaped double quote as the double quote it stands for
Unescaped(s) ==
    Join([ k \in 1..Len(s) |->
            IF Char(s, k) = "\\" /\ k < Len(s) /\ Char(s, k + 1) = "\"" THEN ""
            ELSE Char(s, k) ])

\* the title that the writer put in the header: the text between the quotes of the
\* title line, the second line of the block
WrittenTitle(header) ==
    Unescaped(SubSeq(HeaderLine(header, 2), Len("title: \"") + 1,
                     Len(HeaderLine(header, 2)) - 1))

\* the date that the writer put in the header: the text of the date line, the third
\* line of the block
WrittenDate(header) == From(HeaderLine(header, 3), Len("date: ") + 1)

\* the names of the files of posts_dir in increasing order
SortedPostNames ==
    CHOOSE q \in [ 1..Cardinality(DOMAIN posts) -> DOMAIN posts ] :
        \A a, b \in 1..Cardinality(DOMAIN posts) : a < b => StrLess(q[a], q[b])

\* C11, as claimed: when the run is over, README.md has exactly one entry for every
\* artifact written, the entries are in the order of the file names, and every entry
\* shows the title and the date that the writer put in the header of its artifact.
C11_HeaderRoundTrip ==
    (pc = "done" /\ post_files # << >>)
    => /\ Len(IndexEntries) = Cardinality(DOMAIN posts)
       /\ \A k \in 1..Len(IndexEntries) :
             k <= Cardinality(DOMAIN posts)
             => IndexEntries[k] =
                  "- [" \o WrittenTitle(posts[SortedPostNames[k]].header)
                  \o "](posts/" \o SortedPostNames[k] \o ") - "
                  \o WrittenDate(posts[SortedPostNames[k]].header)

(***************************************************************************)
(* Properties of the date extractor                                        *)
(***************************************************************************)
\* the linked data of the document names a date that is there: not null
HasJsonDate(json_ld) ==
    /\ json_ld.found /\ json_ld.data \in {"dict", "list"}
    /\ \E k \in 1..Len(json_ld.items) :
          /\ json_ld.items[k].is_dict
          /\ \/ "datePublished" \in json_ld.items[k].keys
                /\ json_ld.items[k].datePublished # None
             \/ "dateCreated" \in json_ld.items[k].keys
                /\ json_ld.items[k].dateCreated # None

\* no tier finds a date in the document
NoTierYields(doc) ==
    /\ ~Truthy(doc.meta_published) /\ ~Truthy(doc.meta_created)
    /\ \A k \in 1..Len(doc.time_tags) : ~Truthy(doc.time_tags[k].datetime)
    /\ ~HasJsonDate(doc.json_ld)
    /\ \A k \in 1..Len(doc.date_elems) :
          doc.date_elems[k].found
          => ~Truthy(doc.date_elems[k].datetime) /\ StripSpace(doc.date_elems[k].text) = ""
    /\ (Truthy(doc.canonical) => DateTriples(doc.canonical) = {})

\* C12, as claimed: the publish date that _extract_date returns is never absent, and
\* it is the current timestamp when no tier finds a date, a linked-data block with a
\* null datePublished or dateCreated entry included.
C12_PublishDateNeverAbsent ==
    pc = "extracted"
    => /\ publish_date # None
       /\ NoTierYields(soup) => publish_date = Now

(***************************************************************************)
(* Properties of the discovery                                             *)
(***************************************************************************)
\* C13: the paginated pages of a listing are requested in increasing order from page
\* 2 and never beyond page 20; the first one only after the listing itself answered
\* 200, page n+1 only after page n answered 200 and the sleep that follows it; after
\* the first paginated page that fails no other page of the listing is requested and
\* the loop goes on to the next listing, or to the return after the last one.
C13_PaginationInOrder ==
    [][ /\ pc' = "pagination"
           => /\ 2 <= page' /\ page' <= 20
              /\ source' = source
              /\ \/ pc = "archives" /\ status_code' = "200" /\ page' = 2
                 \/ pc = "pause" /\ status_code = "200" /\ page' = page + 1
        /\ pc' = "pause"
           => pc = "pagination" /\ status_code' = "200" /\ page' = page /\ source' = source
        /\ (pc = "pagination" /\ status_code' # "200")
           => /\ page' = 0
              /\ IF source < Len(pages_to_check)
                 THEN pc' = "archives" /\ source' = source + 1
                 ELSE pc' = "return"
      ]_vars

\* the last page of the range is about to be requested, for the last listing
C13_Witness ==
    pc = "pagination" /\ page = PageStop - 1 /\ source = Len(pages_to_check)

\* the number of requests of the candidate u
TimesRequested(u) == Cardinality({ k \in 1..Len(requested) : requested[k] = u })

\* C14: discover_blog_posts returns whatever the requests answer: it never ends with
\* an exception, at its return each of the 3 site maps and each of the 4 listings has
\* been requested exactly once, no step takes a URL out of the set collected, and the
\* list returned holds every URL collected.
C14_DiscoveryAlwaysReturns ==
    /\ [](pc # "crashed")
    /\ []( /\ Len(sitemap_urls) = 3 /\ Len(pages_to_check) = 4
           /\ \A k \in 1..3 : TimesRequested(sitemap_urls[k]) <= 1
           /\ \A k \in 1..4 : TimesRequested(pages_to_check[k]) <= 1
           /\ pc \in {"return", "discovered"}
              => /\ Len(requested) = 7
                 /\ \A k \in 1..3 : TimesRequested(sitemap_urls[k]) = 1
                 /\ \A k \in 1..4 : TimesRequested(pages_to_check[k]) = 1
           /\ pc = "discovered"
              => \A k \in 1..Len(post_urls) :
                    \E n \in 1..Len(discovered) : discovered[n] = post_urls[k] )
    /\ [][ \A k \in 1..Len(post_urls) :
              \E n \in 1..Len(post_urls') : post_urls'[n] = post_urls[k] ]_vars
    /\ <>(pc = "discovered")

\* the last listing raised, and the two URLs of earlier sources are returned
C14_Witness ==
    pc = "discovered" /\ status_code = "exception" /\ Len(discovered) = 2

(***************************************************************************)
(* Properties of the counters of run()                                     *)
(***************************************************************************)
\* the handling of a URL ends with this step: the loop body is left, by its end or by
\* an exception
EndsUrl == pc \in {"scrape", "convert"} /\ pc' \in {"sleep", "crashed"}

\* C15, as claimed: processed is the length of post_files; while URL i is handled the
\* two counters add up to i - 1, and once its handling is over they add up to i: the
\* step that ends the handling of a URL adds one to exactly one counter and no other
\* step of the loop changes a counter; counters and list never decrease; at the
\* summary the counters add up to the length of the list discovered.
C15_CountersCountEveryUrl ==
    /\ []( /\ processed = Len(post_files)
           /\ pc \in {"scrape", "convert"} => processed + failed = i - 1
           /\ pc \in {"sleep", "crashed"} => processed + failed = i
           /\ pc \in {"index", "summary"} => processed + failed = Len(discovered)
           /\ summary # << >> => summary[1] + summary[2] = Len(discovered) )
    /\ [][ /\ processed' >= processed /\ failed' >= failed
           /\ Len(post_files') >= Len(post_files)
           /\ SubSeq(post_files', 1, Len(post_files)) = post_files
           /\ EndsUrl => \/ processed' = processed + 1 /\ failed' = failed
                         \/ processed' = processed /\ failed' = failed + 1
           /\ (pc \in {"scrape", "convert", "sleep"} /\ ~EndsUrl)
              => processed' = processed /\ failed' = failed ]_vars

=============================================================================
